---- MODULE Spec2Model ----
(***************************************************************************)
(* Model of detprocess trigger processing                                  *)
(* (src/detprocess/process/process_trigger.py, class TriggerProcessing):   *)
(*   - process(): argument check, clamping of ncores, creation of the      *)
(*     output directory, split of the series list, dispatch of _process    *)
(*     to one worker or to a multiprocessing Pool, final collection;       *)
(*   - _process(): the per-series / per-block loop with the event counter, *)
(*     the memory estimate, the truncation, the dumps to file and the      *)
(*     in-memory output table.                                             *)
(* A data frame is modelled by its rows; a row is <<series, block, k, id>>, *)
(* the k-th trigger row the event builder produced for a block, with the   *)
(* processing id put in its column 'processing_id'.                        *)
(***************************************************************************)
EXTENDS Integers, Sequences, FiniteSets, TLC

\* ------------------------------------------------------------------ bounds
\* largest number of series of the raw data group
MaxSeries == 2
\* largest ncores a caller passes to process()
MaxCores == 2
\* largest number of blocks (events of the raw data) of the whole data set
MaxBlocks == 2
\* largest number of trigger rows one block yields
MaxRows == 2
\* largest ntriggers a caller passes to process()
MaxNTriggers == 2
\* the small memory limits are 1..MaxLimitRows rows' worth of bytes
MaxLimitRows == 1
\* number of columns of the event data frame (shape[1])
NumColumns == 2
\* largest number of reads that fail on a raw data issue in one run
MaxReadErrors == 1
\* largest series list and ncores of the split-only specification
MaxSplitSeries == 10
\* largest number of trigger entries of the trigger section of a YAML file
MaxEntries == 2
\* number of samples of the trace of a block
BlockLen == 4
\* largest pileup_window_samples of a trigger
MaxPileupWindow == 3
\* largest time of a trigger of a block, in ms
MaxTime == 9
\* largest coincident_window_msec
MaxCoincidentWindow == 6
\* largest number of triggers of a block, all channels together
MaxTriggers == 3

\* default memory_limit of process(), '2GB' as parse_size gives it
DefaultMemoryLimit == 2000000000

\* ----------------------------------------------------------------- helpers
Min(a, b) == IF a < b THEN a ELSE b

\* a python variable holding None, or a data frame with its rows
NoneDf == [none |-> TRUE, rows |-> <<>>]
Df(rows) == [none |-> FALSE, rows |-> rows]

Range(seq) == {seq[i] : i \in DOMAIN seq}

RECURSIVE Flatten(_)
Flatten(seqs) ==
    IF seqs = <<>> THEN <<>> ELSE Head(seqs) \o Flatten(Tail(seqs))

RECURSIVE SumSeq(_)
SumSeq(seq) == IF seq = <<>> THEN 0 ELSE Head(seq) + SumSeq(Tail(seq))

VARIABLES
    series_list,    \* self._series_list
    source,         \* the raw data: per series, the blocks read so far and how it ends
    ppc,            \* position of process(): "init", "running", "done", "raised"
    perr,           \* what process() raised: "none", "config", "worker"
    args,           \* the arguments of the process() call
    dir_created,    \* _create_output_directory was called
    node,           \* the workers running _process, in dispatch order
    result,         \* what process() returned
    yaml,           \* the 'trigger' section of the YAML file, as loaded
    config,         \* what TriggerProcessing._read_config gave
    uconfig,        \* what utils.read_config gave
    trig,           \* a trigger channel: its OptimumFilterTrigger object and
                    \* the block it was given last
    evtb            \* the event builder: the triggers of a block and the
                    \* Events built of them

vars == <<series_list, source, ppc, perr, args, dir_created, node, result,
          yaml, config, uconfig, trig, evtb>>

\* the variables of process() and of its workers
proc_vars == <<series_list, source, ppc, perr, args, dir_created, node, result>>

\* the variables of the configuration loading
conf_vars == <<yaml, config, uconfig>>

\* the variables of the trigger acquisition and of the event building
pipe_vars == <<trig, evtb>>

\* -------------------------------------------------------- the configuration
\* A key of the YAML mapping is a string, held as its sequence of tokens: a
\* token is a channel name, a separator character or a parameter name.
\* 'A+B' is <<"A", "+", "B">>.
\* channel names a YAML file may use, in alphabetic order; the raw data have
\* channels "A" and "B", "X" is not in the raw data
ChannelOrder == <<"A", "B", "X">>

ChannelNames == {ChannelOrder[i] : i \in DOMAIN ChannelOrder}

\* self._get_channel_list(input_data_dict)
AvailableChannels == {"A", "B"}

\* utils.read_config: separators; _read_config tests them in this order
Separators == <<",", "+", "-", "|">>

\* utils.read_config: global_trigger_parameters
WindowKeys == {<<"coincident_window_msec">>, <<"coincident_window_samples">>}

\* sep in key
Contains(key, tok) == \E i \in DOMAIN key : key[i] = tok

\* key.split(sep)
RECURSIVE SplitKey(_, _)
SplitKey(key, sep) ==
    IF ~Contains(key, sep) THEN << key >>
    ELSE LET i == CHOOSE i \in DOMAIN key :
                      key[i] = sep /\ \A j \in 1..(i - 1) : key[j] # sep
         IN << SubSeq(key, 1, i - 1) >>
            \o SplitKey(SubSeq(key, i + 1, Len(key)), sep)

\* chan in available_channels, for a name held as tokens
IsAvailable(name) == Len(name) = 1 /\ name[1] \in AvailableChannels

\* a python dict held as the sequence of its items: d[k] = v keeps the place
\* of a key already there and puts a new key last
DictSet(d, k, v) ==
    IF \E i \in DOMAIN d : d[i].key = k
    THEN [i \in DOMAIN d |-> IF d[i].key = k THEN [key |-> k, val |-> v]
                             ELSE d[i]]
    ELSE Append(d, [key |-> k, val |-> v])

RECURSIVE DictSetAll(_, _, _)
DictSetAll(d, ks, v) ==
    IF ks = <<>> THEN d ELSE DictSetAll(DictSet(d, Head(ks), v), Tail(ks), v)

\* _read_config, "channel names": the character the key is split on
SplitChar(key) ==
    IF Contains(key, ",") THEN ","
    ELSE IF Contains(key, "+") THEN "+"
    ELSE IF Contains(key, "-") THEN "-"
    ELSE IF Contains(key, "|") THEN "|"
    ELSE "none"

\* _read_config, "Let's loop through keys and find trigger channels": acc
\* holds trigger_config, eventbuilder_config and trigger_channels
RECURSIVE ReadEntries(_, _)
ReadEntries(entries, acc) ==
    IF entries = <<>> THEN acc
    ELSE
      LET e == Head(entries)
          split_char == SplitChar(e.key)
          acc1 ==
            IF ~e.val.dict
            THEN [acc EXCEPT !.eventbuilder_config =
                                 DictSet(@, e.key, e.val)]
            ELSE IF ~e.val.run THEN acc
            ELSE [acc EXCEPT
                    !.trigger_config =
                        IF ~Contains(e.key, ",") THEN DictSet(@, e.key, e.val)
                        ELSE DictSetAll(@, SplitKey(e.key, ","), e.val),
                    !.trigger_channels =
                        IF split_char = "none" THEN Append(@, e.key)
                        ELSE @ \o SplitKey(e.key, split_char)]
      IN ReadEntries(Tail(entries), acc1)

\* faulty variant of CheckChannels: a channel used twice is let through
RECURSIVE CheckChannelsNoDuplicate(_, _)
CheckChannelsNoDuplicate(chans, channel_list) ==
    IF chans = <<>> THEN "none"
    ELSE IF ~IsAvailable(Head(chans)) THEN "unknown"
    ELSE CheckChannelsNoDuplicate(Tail(chans), Append(channel_list, Head(chans)))

\* _read_config, "Let's check that there are no duplicate channels or
\* channels does not exist": the ValueError raised, if any
RECURSIVE CheckChannels(_, _)
CheckChannels(chans, channel_list) ==
    IF chans = <<>> THEN "none"
    ELSE IF ~IsAvailable(Head(chans)) THEN "unknown"
    ELSE IF \E i \in DOMAIN channel_list : channel_list[i] = Head(chans)
    THEN "duplicate"
    ELSE CheckChannels(Tail(chans), Append(channel_list, Head(chans)))

\* d[k] and d.pop(k) for a python dict held as the sequence of its items
DictGet(d, k) == d[CHOOSE i \in DOMAIN d : d[i].key = k].val

DictPop(d, k) == SelectSeq(d, LAMBDA item : item.key # k)

\* utils.split_channel_name(chan, available_channels, separator=','): the
\* pieces of the name that are not empty
UtilsSplitName(name, sep) ==
    IF IsAvailable(name) \/ ~Contains(name, sep) THEN << name >>
    ELSE SelectSeq(SplitKey(name, sep), LAMBDA piece : piece # <<>>)

\* utils.read_config, the loop over split_channels: st holds the error
\* raised, config_dict and parameter_list
RECURSIVE UtilsAddSplit(_, _, _)
UtilsAddSplit(pieces, chan, st) ==
    IF pieces = <<>> \/ st.error # "none" THEN st
    ELSE IF \E i \in DOMAIN st.parameter_list :
                st.parameter_list[i] = Head(pieces)
    THEN [st EXCEPT !.error = "duplicate"]
    ELSE UtilsAddSplit(Tail(pieces), chan,
            [st EXCEPT
               !.config_dict = DictSet(@, Head(pieces), DictGet(@, chan)),
               !.parameter_list = Append(@, Head(pieces))])

\* utils.read_config, "let's split channels that are separated by a comma
\* and check duplicate"
RECURSIVE UtilsCheckKeys(_, _)
UtilsCheckKeys(iter_list, st) ==
    IF iter_list = <<>> \/ st.error # "none" THEN st
    ELSE
      LET chan == Head(iter_list)
          st1 ==
            IF Contains(chan, ",")
            THEN LET s == UtilsAddSplit(UtilsSplitName(chan, ","), chan, st)
                 IN IF s.error # "none" THEN s
                    ELSE [s EXCEPT !.config_dict = DictPop(@, chan)]
            ELSE IF \E i \in DOMAIN st.parameter_list :
                        st.parameter_list[i] = chan
            THEN [st EXCEPT !.error = "duplicate"]
            ELSE [st EXCEPT !.parameter_list = Append(@, chan)]
      IN UtilsCheckKeys(Tail(iter_list), st1)

\* utils.split_channel_name(chan, available_channels, separator=None) for a
\* name that is not an available channel: the separator found, or "error"
\* when the name cannot be split
UtilsFindSeparator(name) ==
    LET rest == {name[i] : i \in DOMAIN name} \ AvailableChannels
    IN IF Cardinality(rest) = 1 THEN CHOOSE sep \in rest : TRUE ELSE "error"

\* utils.read_config, "loop channels/keys and add to output configuratiob":
\* st holds the error raised and processing_config['trigger']
RECURSIVE UtilsAddKeys(_, _)
UtilsAddKeys(items, st) ==
    IF items = <<>> \/ st.error # "none" THEN st
    ELSE
      LET chan == Head(items).key
          config1 == Head(items).val
          disabled == ~config1.run
          put == IF disabled THEN [st EXCEPT !.trigger = DictPop(@, chan)]
                 ELSE [st EXCEPT !.trigger = DictSet(@, chan, config1)]
          st1 ==
            IF IsAvailable(chan)
            THEN IF ~config1.dict THEN [st EXCEPT !.error = "emptychannel"]
                 ELSE put
            ELSE IF chan \in WindowKeys
            THEN [st EXCEPT !.trigger = DictSet(@, chan, config1)]
            ELSE LET separator == UtilsFindSeparator(chan)
                 IN IF separator = "error"
                    THEN [st EXCEPT !.error = "unknown"]
                    ELSE IF \E i \in DOMAIN Separators :
                                Separators[i] = separator
                    THEN put
                    ELSE [st EXCEPT !.error = "unknown"]
      IN UtilsAddKeys(Tail(items), st1)

\* utils.read_config on the trigger section loaded: the checks of the
\* 'trigger' configuration type
UtilsReadConfig(entries) ==
    LET st1 == UtilsCheckKeys([i \in DOMAIN entries |-> entries[i].key],
                   [error |-> "none", config_dict |-> entries,
                    parameter_list |-> <<>>])
        both == \A k \in WindowKeys :
                    \E i \in DOMAIN st1.parameter_list :
                        st1.parameter_list[i] = k
        st2 == UtilsAddKeys(st1.config_dict,
                            [error |-> "none", trigger |-> <<>>])
        err == IF st1.error # "none" THEN st1.error
               ELSE IF both THEN "bothwindows"
               ELSE st2.error
    IN IF err # "none"
       THEN [status |-> "error", error |-> err, trigger |-> <<>>]
       ELSE [status |-> "ok", error |-> "none", trigger |-> st2.trigger]

\* utils.read_config was not called
NoUtilsConfig == [status |-> "unread", error |-> "none", trigger |-> <<>>]

\* no configuration was read
NoConfig ==
    [status |-> "unread", error |-> "none", trigger_config |-> <<>>,
     eventbuilder_config |-> <<>>, trigger_channels |-> <<>>]

\* TriggerProcessing._read_config on the trigger section loaded, followed
\* by the test of __init__ on an empty channel list
ReadConfig(entries) ==
    LET acc == ReadEntries(entries, NoConfig)
        err == CheckChannels(acc.trigger_channels, <<>>)
    IN IF err # "none"
       THEN [NoConfig EXCEPT !.status = "error", !.error = err]
       ELSE IF acc.trigger_channels = <<>>
       THEN [NoConfig EXCEPT !.status = "error", !.error = "nochannel"]
       ELSE [acc EXCEPT !.status = "ok"]

\* ------------------------------------------------------ the split of series
\* faulty variant of SectionSize: the whole remainder goes to the first
\* section
SectionSizeRemainderFirst(n, k, i) ==
    IF i = 1 THEN (n \div k) + (n % k) ELSE n \div k

\* numpy.array_split: sizes of the sections, the first (n mod k) one longer
SectionSize(n, k, i) == IF i <= n % k THEN (n \div k) + 1 ELSE n \div k

\* numpy.array_split: div_points, the cumulative sum of the section sizes
RECURSIVE DivPoint(_, _, _)
DivPoint(n, k, i) ==
    IF i = 0 THEN 0 ELSE DivPoint(n, k, i - 1) + SectionSize(n, k, i)

\* faulty variant of ArraySplit: a section starts on the last element of
\* the section before it
ArraySplitOverlap(ary, k) ==
    [i \in 1..k |->
        SubSeq(ary, IF i = 1 THEN 1 ELSE DivPoint(Len(ary), k, i - 1),
               DivPoint(Len(ary), k, i))]

\* numpy.array_split(ary, k)[i] = ary[div_points[i-1] : div_points[i]]
ArraySplit(ary, k) ==
    [i \in 1..k |->
        SubSeq(ary, DivPoint(Len(ary), k, i - 1) + 1, DivPoint(Len(ary), k, i))]

\* TriggerProcessing._split_series: the non-empty sections, in order
SplitSeries(slist, ncores) ==
    SelectSeq(ArraySplit(slist, ncores), LAMBDA sub : Len(sub) # 0)

\* process(): "check number cores allowed"
ClampCores(ncores, slist) == IF ncores > Len(slist) THEN Len(slist) ELSE ncores

\* faulty variant of ConfigError: the test on ncores is off by one
ConfigErrorOffByOne(a) == a.ncores >= 1 /\ a.ntriggers > -1

\* process(): "check input", the ValueError of multi cores with ntriggers
ConfigError(a) == a.ncores > 1 /\ a.ntriggers > -1

\* ------------------------------------------------------ trigger acquisition
\* OptimumFilterTrigger and EventBuilder.acquire_triggers are not in the
\* sources at hand; they are modelled as ChannelTrigger.detect of the design
\* document. Samples of a trace are numbered from 1.

\* the state an OptimumFilterTrigger object is built with: no trigger so
\* far (last_trigger_sample is -1), no sample seen
NewTriggerState == [last_trigger_sample |-> -1, nsamples |-> 0]

\* the trace as detect scans it: the sign follows positive_pulses
SignedTrace(trace, positive_pulses) ==
    [i \in DOMAIN trace |-> IF positive_pulses THEN trace[i] ELSE 0 - trace[i]]

\* the threshold crossings of a trace: for every run of samples above the
\* threshold, the sample of largest amplitude (the first of them); cur is
\* that sample for the run the scan is in, 0 outside a run
RECURSIVE ScanCrossings(_, _, _, _, _)
ScanCrossings(v, threshold, i, cur, acc) ==
    IF i > Len(v) THEN (IF cur # 0 THEN Append(acc, cur) ELSE acc)
    ELSE IF v[i] > threshold
    THEN ScanCrossings(v, threshold, i + 1,
                       IF cur = 0 \/ v[i] > v[cur] THEN i ELSE cur, acc)
    ELSE ScanCrossings(v, threshold, i + 1, 0,
                       IF cur # 0 THEN Append(acc, cur) ELSE acc)

Crossings(v, threshold) == ScanCrossings(v, threshold, 1, 0, <<>>)

\* faulty variant of SuppressPileup: of the crossings of a group the first
\* is kept, not the largest
RECURSIVE SuppressPileupKeepFirst(_, _, _, _, _, _)
SuppressPileupKeepFirst(v, crossings, window, cur, last, acc) ==
    IF crossings = <<>> THEN (IF cur # 0 THEN Append(acc, cur) ELSE acc)
    ELSE LET c == Head(crossings)
         IN IF cur # 0 /\ c - last < window
            THEN SuppressPileupKeepFirst(v, Tail(crossings), window,
                                         cur, c, acc)
            ELSE SuppressPileupKeepFirst(v, Tail(crossings), window, c, c,
                     IF cur # 0 THEN Append(acc, cur) ELSE acc)

\* pileup suppression in a block: crossings closer than the window to the
\* crossing before them form a group, of which the crossing of largest
\* amplitude is kept; cur is that crossing for the open group, last the
\* crossing scanned before
RECURSIVE SuppressPileup(_, _, _, _, _, _)
SuppressPileup(v, crossings, window, cur, last, acc) ==
    IF crossings = <<>> THEN (IF cur # 0 THEN Append(acc, cur) ELSE acc)
    ELSE LET c == Head(crossings)
         IN IF cur # 0 /\ c - last < window
            THEN SuppressPileup(v, Tail(crossings), window,
                                IF v[c] > v[cur] THEN c ELSE cur, c, acc)
            ELSE SuppressPileup(v, Tail(crossings), window, c, c,
                                IF cur # 0 THEN Append(acc, cur) ELSE acc)

\* a crossing of the block is within the pileup window of the last
\* candidate emitted before the block
NearLastTrigger(st, c, window) ==
    /\ st.last_trigger_sample # -1
    /\ (st.nsamples + c) - st.last_trigger_sample < window

\* ChannelTrigger.detect: the candidates of a block, in the order of their
\* sample_index; position is the place of the sample in the samples the
\* trigger object has seen
Detect(st, trace, cfg) ==
    LET v == SignedTrace(trace, cfg.positive_pulses)
        kept == SuppressPileup(v, Crossings(v, cfg.threshold),
                               cfg.pileup_window_samples, 0, 0, <<>>)
        new == SelectSeq(kept, LAMBDA c :
                   ~NearLastTrigger(st, c, cfg.pileup_window_samples))
    IN [k \in DOMAIN new |->
           [sample_index |-> new[k], amplitude |-> trace[new[k]],
            position |-> st.nsamples + new[k]]]

\* the side effect of detect: last_trigger_sample is the position of the
\* last candidate emitted
AfterDetect(st, trace, cands) ==
    [last_trigger_sample |->
         IF cands = <<>> THEN st.last_trigger_sample
         ELSE cands[Len(cands)].position,
     nsamples |-> st.nsamples + Len(trace)]

\* the trigger configuration of a channel, as _read_config keeps it
TriggerConfigs ==
    [threshold : {0}, pileup_window_samples : 0..MaxPileupWindow,
     positive_pulses : BOOLEAN]

\* the sizes of the samples of a filtered trace: at the threshold, above
\* it, and above it by more
SampleSizes == {0, 1, 2}

\* the filtered traces of a block: pulses of the sign the channel has
FilteredTraces(cfg) ==
    {[i \in 1..BlockLen |->
          IF cfg.positive_pulses THEN a[i] ELSE 0 - a[i]] :
        a \in [1..BlockLen -> SampleSizes]}

\* a trigger channel before any block: OptimumFilterTrigger is instantiated
\* once, before the loop over the series
NewTrigger(cfg) ==
    [cfg |-> cfg, state |-> NewTriggerState, series |-> 1, block |-> 0,
     nblocks |-> 0, pc |-> "loop", trace |-> <<>>, cands |-> <<>>,
     before |-> NewTriggerState, series_last |-> -1]

\* the trigger channel of the runs that acquire no trigger
IdleTrigger == NewTrigger([threshold |-> 0, pileup_window_samples |-> 0,
                           positive_pulses |-> TRUE])

\* the event builder of the runs that build no event
IdleBuilder == [pc |-> "idle", window |-> 0, triggers |-> {}, events |-> <<>>]

\* faulty variant of TriggerObject: a trigger object is instantiated for
\* every block
TriggerObjectPerBlock(t) == NewTriggerState

\* the trigger object a block is given: the one instantiated before the
\* loops, with the state the blocks before have left
TriggerObject(t) == t.state

\* acquire_triggers on the next block of the series
AcquireTriggers(t, trace) ==
    LET st == TriggerObject(t)
        cands == Detect(st, trace, t.cfg)
    IN [t EXCEPT !.state = AfterDetect(st, trace, cands),
                 !.before = st,
                 !.block = t.block + 1,
                 !.nblocks = t.nblocks + 1,
                 !.pc = "acquired",
                 !.trace = trace,
                 !.cands = cands,
                 !.series_last = IF cands = <<>> THEN t.series_last
                                 ELSE cands[Len(cands)].position]

\* the end of the iteration of the loop over the blocks
NextBlock(t) ==
    [t EXCEPT !.pc = "loop", !.trace = <<>>, !.cands = <<>>,
              !.before = NewTriggerState]

\* the next iteration of the loop over the series: set_series on the next
\* series; nothing is done to the trigger objects
SetSeries(t) ==
    [t EXCEPT !.series = t.series + 1, !.block = 0, !.series_last = -1]

\* ---------------------------------------------------------- event building
\* EventBuilder.build_event is not in the sources at hand; it is modelled
\* as EventBuilder.build of the design document. A trigger is a record of
\* its channel and its absolute_time, in ms.

\* the place of a channel in the order of the channel names
ChannelRank(c) == CHOOSE i \in DOMAIN ChannelOrder : ChannelOrder[i] = c

\* a trigger is before another in the sequence build walks: by
\* absolute_time, by channel name at equal times
Before(a, b) ==
    \/ a.time < b.time
    \/ a.time = b.time /\ ChannelRank(a.channel) < ChannelRank(b.channel)

\* faulty variant of before: by channel name first
BeforeByChannel(a, b) ==
    \/ ChannelRank(a.channel) < ChannelRank(b.channel)
    \/ a.channel = b.channel /\ a.time < b.time

\* faulty variant of SortTriggers: the triggers of the first channel, then
\* those of the second
RECURSIVE SortTriggersByChannel(_)
SortTriggersByChannel(triggers) ==
    IF triggers = {} THEN <<>>
    ELSE LET first == CHOOSE a \in triggers :
                          \A b \in triggers \ {a} : BeforeByChannel(a, b)
         IN << first >> \o SortTriggersByChannel(triggers \ {first})

\* the triggers of all channels flattened into one sequence
RECURSIVE SortTriggers(_)
SortTriggers(triggers) ==
    IF triggers = {} THEN <<>>
    ELSE LET first == CHOOSE a \in triggers :
                          \A b \in triggers \ {a} : Before(a, b)
         IN << first >> \o SortTriggers(triggers \ {first})

\* a time falls within the coincidence window of a reference time
WithinWindow(time, reference, window) == time - reference <= window

\* an Event of a group of triggers: the reference is the first of the group
MakeEvent(group) == [trigger_time |-> group[1].time, triggers |-> group]

\* faulty variant of Sweep: the window slides to the trigger added last
RECURSIVE SweepSliding(_, _, _, _)
SweepSliding(seq, window, group, acc) ==
    IF seq = <<>>
    THEN (IF group = <<>> THEN acc ELSE Append(acc, MakeEvent(group)))
    ELSE LET c == Head(seq)
         IN IF group = <<>>
            THEN SweepSliding(Tail(seq), window, << c >>, acc)
            ELSE IF WithinWindow(c.time, group[Len(group)].time, window)
            THEN SweepSliding(Tail(seq), window, Append(group, c), acc)
            ELSE SweepSliding(Tail(seq), window, << c >>,
                              Append(acc, MakeEvent(group)))

\* the sweep over the flattened triggers: a trigger is absorbed by the open
\* group when its time is within the window of the first trigger of the
\* group; otherwise the group is closed and the trigger opens a group
RECURSIVE Sweep(_, _, _, _)
Sweep(seq, window, group, acc) ==
    IF seq = <<>>
    THEN (IF group = <<>> THEN acc ELSE Append(acc, MakeEvent(group)))
    ELSE LET c == Head(seq)
         IN IF group = <<>>
            THEN Sweep(Tail(seq), window, << c >>, acc)
            ELSE IF WithinWindow(c.time, group[1].time, window)
            THEN Sweep(Tail(seq), window, Append(group, c), acc)
            ELSE Sweep(Tail(seq), window, << c >>,
                       Append(acc, MakeEvent(group)))

\* EventBuilder.build: the Events of the triggers of a block
Build(triggers, window) == Sweep(SortTriggers(triggers), window, <<>>, <<>>)

\* the triggers a block can give: a channel has no two triggers at one time
BlockTriggers == [channel : AvailableChannels, time : 0..MaxTime]

\* the event builder before the triggers of a block are acquired
NewBuilder(window) ==
    [pc |-> "acquire", window |-> window, triggers |-> {}, events |-> <<>>]

\* acquire_triggers has found one more trigger in the block
AddTrigger(b, c) == [b EXCEPT !.triggers = b.triggers \cup {c}]

\* build_event with the coincidence window of the configuration
BuildEvent(b) ==
    [b EXCEPT !.pc = "built", !.events = Build(b.triggers, b.window)]

\* ------------------------------------------------------------- the worker
\* the local variables of _process() when the series loop is entered
InitWorker(node_num, slist, a, ncores) ==
    [ node_num |-> node_num,
      series_list |-> slist,
      ntriggers |-> a.ntriggers,
      lgc_save |-> a.lgc_save,
      lgc_output |-> a.lgc_output,
      \* self._processing_id, as process() has set it
      processing_id |-> a.processing_id,
      \* memory_limit /= ncores is a float division: the limit is kept as
      \* the pair (memory_limit, memory_div) and compared exactly
      memory_limit |-> a.memory_limit,
      memory_div |-> ncores,
      pc |-> "series",
      si |-> 0,
      nread |-> 0,
      block_rows |-> 0,
      trigger_counter |-> 0,
      series_df |-> NoneDf,
      output_df |-> NoneDf,
      dump_couter |-> 1,
      do_stop |-> FALSE,
      ntriggers_limit_reached |-> FALSE,
      memory_limit_reached |-> FALSE,
      files |-> <<>>,
      \* not variables of the code: why _process returned ("end", "ntriggers",
      \* "memory", "error"), and the blocks passed to acquire_triggers and
      \* build_event
      stop |-> "none",
      acquired |-> {},
      \* every row appended to series_df so far, in order
      appended |-> <<>>,
      \* a dump or copy was made on the memory limit alone while the read
      \* of the next block had succeeded
      memflush |-> FALSE ]

\* the series the worker is in
Series(w) == w.series_list[w.si]

\* memory_usage = df.shape[0]*df.shape[1]*8
MemoryUsage(df) == Len(df.rows) * NumColumns * 8

\* memory_usage >= memory_limit, with memory_limit the caller's value
\* divided by ncores
LimitReached(w, df) == MemoryUsage(df) * w.memory_div >= w.memory_limit

\* faulty variant of SeriesStep: series_df is not initialized when a series
\* is started
SeriesStepKeepDf(w) ==
    IF w.si = Len(w.series_list)
    THEN [w EXCEPT !.pc = "done",
                   !.stop = IF w.stop = "none" THEN "end" ELSE w.stop]
    ELSE [w EXCEPT !.si = w.si + 1,
                   !.nread = 0,
                   !.dump_couter = 1,
                   !.do_stop = FALSE,
                   !.pc = "check"]

\* "loop series": the next series of the list is started, or the function
\* returns output_df when the list is exhausted
SeriesStep(w) ==
    IF w.si = Len(w.series_list)
    THEN [w EXCEPT !.pc = "done",
                   !.stop = IF w.stop = "none" THEN "end" ELSE w.stop]
    ELSE [w EXCEPT !.si = w.si + 1,
                   !.nread = 0,
                   !.series_df = NoneDf,
                   !.dump_couter = 1,
                   !.do_stop = FALSE,
                   !.pc = "check"]

\* faulty variant of ReadStep: the trigger count is reached only when it is
\* exceeded
ReadStepStrict(w, success, n) ==
    LET nlim == w.ntriggers > 0 /\ w.trigger_counter > w.ntriggers
        mlim == ~w.series_df.none /\ LimitReached(w, w.series_df)
        tlim == w.lgc_output /\ ~w.output_df.none
                /\ LimitReached(w, w.output_df)
        stop == ~success
    IN [w EXCEPT !.ntriggers_limit_reached = nlim,
                 !.memory_limit_reached = mlim \/ tlim,
                 !.do_stop = stop,
                 !.nread = IF success THEN w.nread + 1 ELSE w.nread,
                 !.block_rows = IF success THEN n ELSE 0,
                 !.pc = IF stop \/ nlim \/ mlim \/ tlim
                        THEN "handle" ELSE "trigger"]

\* head of the event loop: the two limit flags, then read_next_event;
\* success is what read_next_event returned and n the number of trigger
\* rows the block read will yield
ReadStep(w, success, n) ==
    LET nlim == w.ntriggers > 0 /\ w.trigger_counter >= w.ntriggers
        mlim == ~w.series_df.none /\ LimitReached(w, w.series_df)
        tlim == w.lgc_output /\ ~w.output_df.none
                /\ LimitReached(w, w.output_df)
        stop == ~success
    IN [w EXCEPT !.ntriggers_limit_reached = nlim,
                 !.memory_limit_reached = mlim \/ tlim,
                 !.do_stop = stop,
                 !.nread = IF success THEN w.nread + 1 ELSE w.nread,
                 !.block_rows = IF success THEN n ELSE 0,
                 !.pc = IF stop \/ nlim \/ mlim \/ tlim
                        THEN "handle" ELSE "trigger"]

\* faulty variant of Truncate: the rows in excess are kept
TruncateNone(w) == w.series_df

\* "case nb triggers reached": the rows of series_df after the truncation
\* series_df[0:nkeep], applied when nkeep > 0
Truncate(w) ==
    LET nextra == w.trigger_counter - w.ntriggers
        nkeep == Len(w.series_df.rows) - nextra
    IN IF w.ntriggers_limit_reached /\ nkeep > 0
       THEN Df(SubSeq(w.series_df.rows, 1, Min(nkeep, Len(w.series_df.rows))))
       ELSE w.series_df

\* the statements of the stop branch that fail on series_df = None:
\* len(series_df), series_df.copy() and series_df.export_hdf5(...)
HandleRaises(w) ==
    w.series_df.none
    /\ (w.ntriggers_limit_reached \/ w.lgc_output \/ w.lgc_save)

\* "case output -> keep copy": output_df after the copy of series_df
KeepCopy(w, df) ==
    IF ~w.lgc_output THEN w.output_df
    ELSE IF w.output_df.none THEN df
    ELSE Df(w.output_df.rows \o df.rows)

\* "save file if needed": the file exported, named by series and dump
\* counter ('threshtrig_<series>_F<dump>.hdf5' in the output group)
ExportFile(w, df) ==
    [series |-> Series(w), dump |-> w.dump_couter, rows |-> df.rows]

\* faulty variant of HandleExit: no return when the trigger count is reached
HandleExitNoReturn(w) ==
    IF w.lgc_output /\ w.memory_limit_reached THEN "memory"
    ELSE IF w.do_stop THEN "break"
    ELSE "continue"

\* faulty variant of HandleExit: no break when the read has failed
HandleExitNoBreak(w) ==
    IF w.ntriggers_limit_reached THEN "ntriggers"
    ELSE IF w.lgc_output /\ w.memory_limit_reached THEN "memory"
    ELSE "continue"

\* where the stop branch leaves control: return on the trigger count,
\* return on the memory limit in output mode, break at the end of the
\* series, else on to the trigger processing of the block just read
HandleExit(w) ==
    IF w.ntriggers_limit_reached THEN "ntriggers"
    ELSE IF w.lgc_output /\ w.memory_limit_reached THEN "memory"
    ELSE IF w.do_stop THEN "break"
    ELSE "continue"

\* faulty variant of AfterSave: series_df is not reset after the dump
AfterSaveKeep(w, df) == df

\* "initialize": series_df after the dump; it is reset only when saving
AfterSave(w, df) == IF w.lgc_save THEN NoneDf ELSE df

\* faulty variant of SaveFile: a file is exported when a limit is reached,
\* not when the series ends
SaveFileOnLimit(w, df) ==
    IF w.lgc_save /\ (w.ntriggers_limit_reached \/ w.memory_limit_reached)
    THEN Append(w.files, ExportFile(w, df))
    ELSE w.files

\* "save file if needed": the files of the worker after the export of
\* series_df
SaveFile(w, df) ==
    IF w.lgc_save THEN Append(w.files, ExportFile(w, df)) ELSE w.files

\* faulty variant of NextDump: the dump counter is not incremented
NextDumpSame(w) == w.dump_couter

\* "increment dump": the dump counter after the export
NextDump(w) == IF w.lgc_save THEN w.dump_couter + 1 ELSE w.dump_couter

\* faulty variant of AfterHandle: after a dump on the memory limit the
\* loop goes to its next pass, and the block read is not processed
AfterHandleSkip(exit) ==
    CASE exit \in {"ntriggers", "memory"} -> "done"
      [] exit = "break" -> "series"
      [] OTHER -> "check"

\* where the worker goes on after the stop branch: it has returned, it
\* goes to the next series, or it processes the block read in the pass
AfterHandle(exit) ==
    CASE exit \in {"ntriggers", "memory"} -> "done"
      [] exit = "break" -> "series"
      [] OTHER -> "trigger"

\* "Handle stop or nb trigger/memory limit reached"
HandleStep(w) ==
    IF HandleRaises(w)
    THEN [w EXCEPT !.pc = "raised", !.stop = "error"]
    ELSE
      LET df == Truncate(w)
          exit == HandleExit(w)
      IN [w EXCEPT
            !.output_df = KeepCopy(w, df),
            !.files = SaveFile(w, df),
            !.dump_couter = NextDump(w),
            !.series_df = AfterSave(w, df),
            !.memflush = w.memflush
                         \/ (w.memory_limit_reached /\ ~w.do_stop
                             /\ ~w.ntriggers_limit_reached
                             /\ (w.lgc_save \/ w.lgc_output)),
            !.stop = IF exit \in {"ntriggers", "memory"} THEN exit ELSE w.stop,
            !.pc = AfterHandle(exit)]

\* faulty variant of EventDf: the column 'processing_id' is filled with None
EventDfNoId(w) == [k \in 1..w.block_rows |-> <<Series(w), w.nread, k, "none">>]

\* get_event_df(): the rows the event builder made of the block just read,
\* with the column 'processing_id' added to them
EventDf(w) ==
    [k \in 1..w.block_rows |-> <<Series(w), w.nread, k, w.processing_id>>]

\* faulty variant of Concat: the new rows are put before the rows held
ConcatBefore(df, event_df) ==
    IF df.none THEN Df(event_df) ELSE Df(event_df \o df.rows)

\* "append event dictionary to dataframe": series_df after the append of
\* event_df, vx.concat([series_df, event_df]) when series_df is not None
Concat(df, event_df) ==
    IF df.none THEN Df(event_df) ELSE Df(df.rows \o event_df)

\* "get threshold": a trigger of self._trigger_config has no
\* 'threshold_sigma'
ThresholdMissing ==
    \E i \in DOMAIN config.trigger_config :
        ~config.trigger_config[i].val.threshold_sigma

\* "process triggers", "build event", then the append to series_df; the
\* loop over the trigger channels raises ValueError on a trigger without
\* threshold
TriggerStep(w) ==
    LET event_df == EventDf(w)
        nb_triggers == Len(event_df)
        block == <<Series(w), w.nread>>
    IN IF ThresholdMissing
       THEN [w EXCEPT !.pc = "raised", !.stop = "threshold"]
       ELSE IF nb_triggers = 0
       THEN [w EXCEPT !.acquired = @ \cup {block}, !.pc = "check"]
       ELSE [w EXCEPT
               !.acquired = @ \cup {block},
               !.appended = @ \o event_df,
               !.trigger_counter = w.trigger_counter + nb_triggers,
               !.series_df = Concat(w.series_df, event_df),
               !.pc = "check"]

\* one pass of the body of "while (not do_stop)", from the limit flags to
\* the append; after a break the series loop goes on to the next series
Iteration(w, success, n) ==
    LET w1 == ReadStep(w, success, n)
        w2 == IF w1.pc = "handle" THEN HandleStep(w1) ELSE w1
        w3 == IF w2.pc = "trigger" THEN TriggerStep(w2) ELSE w2
    IN IF w3.pc = "series" THEN SeriesStep(w3) ELSE w3

\* ---------------------------------------------------------- the raw data
\* blocks of all series read so far
BlocksRead == SumSeq([s \in DOMAIN source |-> Len(source[s].blocks)])

\* series whose reading ended on a raw data issue
ReadErrors == Cardinality({s \in DOMAIN source : source[s].status = "error"})

\* the number of blocks the raw data hold at most: MaxBlocks, and one more
\* in the runs over more than MaxSeries series
BlockBudget ==
    IF Len(series_list) > MaxSeries THEN MaxBlocks + 1 ELSE MaxBlocks

\* what read_next_event can give worker w: <<success, rows of the block,
\* raw data after the read>>. A block already read (by any reader) is read
\* again as it was; past the last block known, the series goes on with a
\* new block, ends, or has a raw data issue
ReadOutcomes(w) ==
    LET s == Series(w)
        src == source[s]
    IN IF w.nread < Len(src.blocks)
       THEN {<<TRUE, src.blocks[w.nread + 1], source>>}
       ELSE IF src.status # "open"
       THEN {<<FALSE, 0, source>>}
       ELSE {<<TRUE, n, [source EXCEPT ![s].blocks = Append(@, n)]>> :
                 n \in IF BlocksRead < BlockBudget THEN 0..MaxRows ELSE {}}
            \cup {<<FALSE, 0, [source EXCEPT ![s].status = st]>> :
                     st \in IF ReadErrors < MaxReadErrors
                            THEN {"eof", "error"} ELSE {"eof"}}

\* ------------------------------------------------------------- process()
MemoryLimits ==
    {8 * NumColumns * k : k \in 1..MaxLimitRows} \cup {DefaultMemoryLimit}

ArgChoices ==
    [ntriggers : -1..MaxNTriggers, ncores : 1..MaxCores,
     lgc_save : BOOLEAN, lgc_output : BOOLEAN, memory_limit : MemoryLimits,
     processing_id : {"none"}]

NoArgs ==
    [ntriggers |-> -1, ncores |-> 1, lgc_save |-> TRUE,
     lgc_output |-> FALSE, memory_limit |-> DefaultMemoryLimit,
     processing_id |-> "none"]

\* faulty variant of Dispatch: memory_limit is divided by the ncores of
\* the call, not by the clamped one
DispatchUnclamped(slist, a) ==
    LET ncores == ClampCores(a.ncores, slist)
    IN IF ncores = 1
       THEN << SeriesStep(InitWorker(-1, slist, a, 1)) >>
       ELSE LET split == SplitSeries(slist, ncores)
            IN [i \in 1..Len(split) |->
                    SeriesStep(InitWorker(i, split[i], a, a.ncores))]

\* the workers process() starts: _process itself for one core, else one
\* Pool task per sub-list of _split_series, numbered from 1
Dispatch(slist, a) ==
    LET ncores == ClampCores(a.ncores, slist)
    IN IF ncores = 1
       THEN << SeriesStep(InitWorker(-1, slist, a, 1)) >>
       ELSE LET split == SplitSeries(slist, ncores)
            IN [i \in 1..Len(split) |->
                    SeriesStep(InitWorker(i, split[i], a, ncores))]

\* process() up to the start of the workers
Process(a) ==
    /\ ppc = "init"
    /\ args' = a
    /\ IF ConfigError(a)
       THEN /\ ppc' = "raised"
            /\ perr' = "config"
            /\ UNCHANGED <<dir_created, node>>
       ELSE /\ ppc' = "running"
            /\ dir_created' = a.lgc_save
            /\ node' = Dispatch(series_list, a)
            /\ UNCHANGED perr
    /\ UNCHANGED <<series_list, source, result>>
    /\ UNCHANGED conf_vars
    /\ UNCHANGED pipe_vars

Running(i) == ppc = "running" /\ i \in DOMAIN node

\* one pass of the event loop "while (not do_stop)" of worker i: the limit
\* flags and the read, the stop branch when it applies, the trigger
\* processing of the block when control reaches it, and the head of the
\* series loop after a break
EventLoop(i) ==
    /\ Running(i)
    /\ node[i].pc = "check"
    /\ \E o \in ReadOutcomes(node[i]) :
          /\ node' = [node EXCEPT ![i] = Iteration(node[i], o[1], o[2])]
          /\ source' = o[3]
    /\ UNCHANGED <<series_list, ppc, perr, args, dir_created, result>>
    /\ UNCHANGED conf_vars
    /\ UNCHANGED pipe_vars

Terminal(w) == w.pc \in {"done", "raised"}

\* the data frame process() returns: the worker's output_df for one core,
\* else the concatenation of the workers' tables that are not None
Collect(ws) ==
    LET dfs == SelectSeq(ws, LAMBDA w : ~w.output_df.none)
    IN IF ~args.lgc_output \/ dfs = <<>> THEN NoneDf
       ELSE Df(Flatten([i \in 1..Len(dfs) |-> dfs[i].output_df.rows]))

\* what the exception process() raises tells of the series when a worker
\* has failed: starmap raises again the exception of a worker as the worker
\* raised it, process() catches nothing and adds nothing, so no series is
\* named as completed or as abandoned
WorkerFailure(ws) == [completed |-> {}, abandoned |-> {}]

\* end of process(): _process has returned, or starmap has all results;
\* an exception of a worker is raised again in process()
Join ==
    /\ ppc = "running"
    /\ \A i \in DOMAIN node : Terminal(node[i])
    /\ IF \E i \in DOMAIN node : node[i].pc = "raised"
       THEN ppc' = "raised" /\ perr' = "worker" /\ UNCHANGED result
       ELSE ppc' = "done" /\ result' = Collect(node) /\ UNCHANGED perr
    /\ UNCHANGED <<series_list, source, args, dir_created, node>>
    /\ UNCHANGED conf_vars
    /\ UNCHANGED pipe_vars

\* ------------------------------------------------------ the specification
\* a trigger entry of the YAML file: the key and the fields of its value
\* that the loading and the processing read
TriggerEntry(key, run, threshold_sigma) ==
    [key |-> key,
     val |-> [dict |-> TRUE, run |-> run, threshold_sigma |-> threshold_sigma]]

\* YAML files with one enabled trigger per channel of the raw data, with or
\* without 'threshold_sigma'
MainYamls ==
    {[i \in 1..Cardinality(AvailableChannels) |->
          TriggerEntry(<< ChannelOrder[i] >>, TRUE, t[i])] :
        t \in [1..Cardinality(AvailableChannels) -> BOOLEAN]}

\* state after TriggerProcessing.__init__: a non-empty list of series and
\* the configuration _read_config has accepted
Init ==
    /\ yaml \in MainYamls
    /\ config = ReadConfig(yaml)
    /\ uconfig = NoUtilsConfig
    /\ trig = IdleTrigger
    /\ evtb = IdleBuilder
    /\ series_list \in {[i \in 1..n |-> i] : n \in 1..MaxSeries}
    /\ source = [s \in 1..MaxSeries |-> [blocks |-> <<>>, status |-> "open"]]
    /\ ppc = "init"
    /\ perr = "none"
    /\ args = NoArgs
    /\ dir_created = FALSE
    /\ node = <<>>
    /\ result = NoneDf

Next ==
    \/ \E a \in ArgChoices : Process(a)
    \/ \E i \in 1..MaxSeries : EventLoop(i)
    \/ Join

Spec == Init /\ [][Next]_vars

\* ------------------------------------------- the split-only specification
\* process() is called on series lists of up to MaxSplitSeries series with
\* up to MaxSplitSeries + 2 cores; the workers are started and not run
SplitArgChoices ==
    [ntriggers : {-1}, ncores : 1..(MaxSplitSeries + 2),
     lgc_save : {TRUE}, lgc_output : {FALSE},
     memory_limit : {DefaultMemoryLimit}, processing_id : {"none"}]

SplitInit ==
    /\ yaml = [i \in 1..Cardinality(AvailableChannels) |->
                  TriggerEntry(<< ChannelOrder[i] >>, TRUE, TRUE)]
    /\ config = ReadConfig(yaml)
    /\ uconfig = NoUtilsConfig
    /\ trig = IdleTrigger
    /\ evtb = IdleBuilder
    /\ series_list \in {[i \in 1..n |-> i] : n \in 1..MaxSplitSeries}
    /\ source = [s \in 1..MaxSeries |-> [blocks |-> <<>>, status |-> "open"]]
    /\ ppc = "init"
    /\ perr = "none"
    /\ args = NoArgs
    /\ dir_created = FALSE
    /\ node = <<>>
    /\ result = NoneDf

SplitNext == \E a \in SplitArgChoices : Process(a)

SplitSpec == SplitInit /\ [][SplitNext]_vars

\* ---------------------------------- the configuration-only specification
\* keys of trigger entries: a channel name, or two channel names joined by
\* a separator, the channel that is first in alphabetic order on the left
ChannelKeys ==
    {<< c >> : c \in ChannelNames}
    \cup UNION {{<< ChannelOrder[i], Separators[s], ChannelOrder[j] >> :
                     i \in 1..j, s \in DOMAIN Separators} :
                 j \in DOMAIN ChannelOrder}

\* a parameter of the trigger section that is not a trigger: its value is
\* a number, not a mapping
ParameterEntry(key) ==
    [key |-> key,
     val |-> [dict |-> FALSE, run |-> FALSE, threshold_sigma |-> FALSE]]

\* the trigger entries a trigger section is made of, with 'run' true or
\* false
ConfigEntries ==
    {TriggerEntry(k, run, TRUE) : k \in ChannelKeys, run \in BOOLEAN}

\* the coincidence window parameters of a trigger section
WindowEntries(ws) ==
    (IF <<"coincident_window_msec">> \in ws
     THEN << ParameterEntry(<<"coincident_window_msec">>) >> ELSE <<>>)
    \o (IF <<"coincident_window_samples">> \in ws
        THEN << ParameterEntry(<<"coincident_window_samples">>) >> ELSE <<>>)

\* the trigger entries yaml.safe_load can give: a mapping has no key twice
TriggerYamls ==
    UNION {{y \in [1..n -> ConfigEntries] :
               \A i, j \in 1..n : i # j => y[i].key # y[j].key} :
           n \in 0..MaxEntries}

\* state before a configuration file is read: the trigger section loaded
\* has none, one or both of the window parameters, then the trigger entries
ConfigInit ==
    /\ \E ws \in SUBSET WindowKeys :
          \E y \in TriggerYamls : yaml = WindowEntries(ws) \o y
    /\ config = NoConfig
    /\ uconfig = NoUtilsConfig
    /\ trig = IdleTrigger
    /\ evtb = IdleBuilder
    /\ series_list = << 1 >>
    /\ source = [s \in 1..MaxSeries |-> [blocks |-> <<>>, status |-> "open"]]
    /\ ppc = "init"
    /\ perr = "none"
    /\ args = NoArgs
    /\ dir_created = FALSE
    /\ node = <<>>
    /\ result = NoneDf

\* TriggerProcessing.__init__ reads the configuration
ReadConfigCall ==
    /\ config.status = "unread"
    /\ uconfig.status = "unread"
    /\ config' = ReadConfig(yaml)
    /\ UNCHANGED <<yaml, uconfig>>
    /\ UNCHANGED proc_vars
    /\ UNCHANGED pipe_vars

\* the configuration is read by utils.read_config instead
UtilsReadConfigCall ==
    /\ config.status = "unread"
    /\ uconfig.status = "unread"
    /\ uconfig' = UtilsReadConfig(yaml)
    /\ UNCHANGED <<yaml, config>>
    /\ UNCHANGED proc_vars
    /\ UNCHANGED pipe_vars

ConfigNext == ReadConfigCall \/ UtilsReadConfigCall

ConfigSpec == ConfigInit /\ [][ConfigNext]_vars

\* --------------------------------- the trigger-acquisition specification
\* state before the loop over the series: the trigger object of a channel
\* is new
DetectInit ==
    /\ \E cfg \in TriggerConfigs : trig = NewTrigger(cfg)
    /\ evtb = IdleBuilder
    /\ yaml = [i \in 1..Cardinality(AvailableChannels) |->
                  TriggerEntry(<< ChannelOrder[i] >>, TRUE, TRUE)]
    /\ config = ReadConfig(yaml)
    /\ uconfig = NoUtilsConfig
    /\ series_list \in {[i \in 1..n |-> i] : n \in 1..MaxSeries}
    /\ source = [s \in 1..MaxSeries |-> [blocks |-> <<>>, status |-> "open"]]
    /\ ppc = "init"
    /\ perr = "none"
    /\ args = NoArgs
    /\ dir_created = FALSE
    /\ node = <<>>
    /\ result = NoneDf

\* a block of the series is read and its triggers are acquired
AcquireStep ==
    /\ trig.pc = "loop"
    /\ trig.nblocks < MaxBlocks
    /\ \E trace \in FilteredTraces(trig.cfg) :
          trig' = AcquireTriggers(trig, trace)
    /\ UNCHANGED <<evtb>>
    /\ UNCHANGED proc_vars
    /\ UNCHANGED conf_vars

\* the loop over the blocks goes on
NextBlockStep ==
    /\ trig.pc = "acquired"
    /\ trig' = NextBlock(trig)
    /\ UNCHANGED <<evtb>>
    /\ UNCHANGED proc_vars
    /\ UNCHANGED conf_vars

\* the series has no more block: the loop over the series goes on
SetSeriesStep ==
    /\ trig.pc = "loop"
    /\ trig.series < Len(series_list)
    /\ trig' = SetSeries(trig)
    /\ UNCHANGED <<evtb>>
    /\ UNCHANGED proc_vars
    /\ UNCHANGED conf_vars

DetectNext == AcquireStep \/ NextBlockStep \/ SetSeriesStep

DetectSpec == DetectInit /\ [][DetectNext]_vars

\* -------------------------------------- the event-building specification
\* state before the triggers of a block are acquired
BuildInit ==
    /\ \E w \in 0..MaxCoincidentWindow : evtb = NewBuilder(w)
    /\ trig = IdleTrigger
    /\ yaml = [i \in 1..Cardinality(AvailableChannels) |->
                  TriggerEntry(<< ChannelOrder[i] >>, TRUE, TRUE)]
    /\ config = ReadConfig(yaml)
    /\ uconfig = NoUtilsConfig
    /\ series_list = << 1 >>
    /\ source = [s \in 1..MaxSeries |-> [blocks |-> <<>>, status |-> "open"]]
    /\ ppc = "init"
    /\ perr = "none"
    /\ args = NoArgs
    /\ dir_created = FALSE
    /\ node = <<>>
    /\ result = NoneDf

\* the triggers of the block are acquired, one more at a time
AddTriggerStep ==
    /\ evtb.pc = "acquire"
    /\ Cardinality(evtb.triggers) < MaxTriggers
    /\ \E c \in BlockTriggers \ evtb.triggers : evtb' = AddTrigger(evtb, c)
    /\ UNCHANGED <<trig>>
    /\ UNCHANGED proc_vars
    /\ UNCHANGED conf_vars

\* the Events of the block are built
BuildEventStep ==
    /\ evtb.pc = "acquire"
    /\ evtb' = BuildEvent(evtb)
    /\ UNCHANGED <<trig>>
    /\ UNCHANGED proc_vars
    /\ UNCHANGED conf_vars

BuildNext == AddTriggerStep \/ BuildEventStep

BuildSpec == BuildInit /\ [][BuildNext]_vars

\* ------------------------------------- the return-in-memory specification
\* calls of process() that return the table, on one core and without a
\* trigger count, with memory limits of up to MaxLimitRows + 1 rows
OutputArgChoices ==
    [ntriggers : {-1}, ncores : {1}, lgc_save : BOOLEAN, lgc_output : {TRUE},
     memory_limit : {8 * NumColumns * k : k \in 1..(MaxLimitRows + 1)},
     processing_id : {"none"}]

\* state after TriggerProcessing.__init__, with up to MaxSeries + 1 series
OutputInit ==
    /\ yaml = [i \in 1..Cardinality(AvailableChannels) |->
                  TriggerEntry(<< ChannelOrder[i] >>, TRUE, TRUE)]
    /\ config = ReadConfig(yaml)
    /\ uconfig = NoUtilsConfig
    /\ trig = IdleTrigger
    /\ evtb = IdleBuilder
    /\ series_list \in {[i \in 1..n |-> i] : n \in 1..(MaxSeries + 1)}
    /\ source = [s \in 1..(MaxSeries + 1) |->
                    [blocks |-> <<>>, status |-> "open"]]
    /\ ppc = "init"
    /\ perr = "none"
    /\ args = NoArgs
    /\ dir_created = FALSE
    /\ node = <<>>
    /\ result = NoneDf

OutputNext ==
    \/ \E a \in OutputArgChoices : Process(a)
    \/ EventLoop(1)
    \/ Join

OutputSpec == OutputInit /\ [][OutputNext]_vars

\* --------------------------------------- the processing-id specification
\* the processing_id a caller passes: none, or a name
ProcessingIds == {"none", "run1"}

\* calls of process() with and without a processing_id, with and without
\* a trigger count, with a memory limit of one row and with the default one
IdArgChoices ==
    [ntriggers : {-1, 1}, ncores : 1..MaxCores,
     lgc_save : BOOLEAN, lgc_output : BOOLEAN,
     memory_limit : {8 * NumColumns, DefaultMemoryLimit},
     processing_id : ProcessingIds]

\* state after TriggerProcessing.__init__, every trigger with a threshold
IdInit ==
    /\ yaml = [i \in 1..Cardinality(AvailableChannels) |->
                  TriggerEntry(<< ChannelOrder[i] >>, TRUE, TRUE)]
    /\ config = ReadConfig(yaml)
    /\ uconfig = NoUtilsConfig
    /\ trig = IdleTrigger
    /\ evtb = IdleBuilder
    /\ series_list \in {[i \in 1..n |-> i] : n \in 1..MaxSeries}
    /\ source = [s \in 1..MaxSeries |-> [blocks |-> <<>>, status |-> "open"]]
    /\ ppc = "init"
    /\ perr = "none"
    /\ args = NoArgs
    /\ dir_created = FALSE
    /\ node = <<>>
    /\ result = NoneDf

IdNext ==
    \/ \E a \in IdArgChoices : Process(a)
    \/ \E i \in 1..MaxSeries : EventLoop(i)
    \/ Join

IdSpec == IdInit /\ [][IdNext]_vars

\* ------------------------------------------ the termination specification
\* calls of process() on one core, with and without a trigger count, with
\* a memory limit of one row and with the default one
LiveArgChoices ==
    [ntriggers : {-1, 1}, ncores : {1},
     lgc_save : BOOLEAN, lgc_output : BOOLEAN,
     memory_limit : {8 * NumColumns, DefaultMemoryLimit},
     processing_id : {"none"}]

\* the blocks of the raw data yield one trigger row at most
SmallBlocks ==
    \A s \in DOMAIN source :
        \A b \in DOMAIN source[s].blocks : source[s].blocks[b] <= 1

\* one pass of the event loop of the worker, on such raw data
LiveEventLoop == EventLoop(1) /\ SmallBlocks'

LiveNext ==
    \/ \E a \in LiveArgChoices : Process(a)
    \/ LiveEventLoop
    \/ Join

\* the scheduling: a worker whose loop can make a pass makes it, and
\* process() goes on when _process has ended
LiveSpec ==
    /\ IdInit
    /\ [][LiveNext]_vars
    /\ WF_vars(LiveEventLoop)
    /\ WF_vars(Join)

\* ------------------------------------------------------------------ claims
Workers == DOMAIN node

\* C6: process() called with ncores > 1 and ntriggers set (> -1) raises the
\* configuration error with no output directory created, no worker started
\* and no block read; with ncores = 1 no configuration error is raised
\* whatever ntriggers is.
C6_CountLimitExcludesMultiCore ==
    ppc # "init" =>
        /\ (args.ncores > 1 /\ args.ntriggers > -1) =>
              /\ ppc = "raised"
              /\ perr = "config"
              /\ ~dir_created
              /\ node = <<>>
              /\ \A s \in 1..MaxSeries :
                    source[s] = [blocks |-> <<>>, status |-> "open"]
        /\ args.ncores = 1 => perr # "config"

\* the call is rejected although it asked for files to be saved
C6_Witness ==
    /\ ppc = "raised"
    /\ perr = "config"
    /\ args.ncores > 1
    /\ args.ntriggers > 0
    /\ args.lgc_save

\* C7: the series lists of the workers started by process() are pairwise
\* disjoint, list no series twice, and their union is the full series list.
C7_AssignmentIsPartition ==
    ppc = "running" =>
        /\ \A i, j \in Workers :
              i # j => Range(node[i].series_list)
                       \cap Range(node[j].series_list) = {}
        /\ \A i \in Workers :
              Cardinality(Range(node[i].series_list))
                  = Len(node[i].series_list)
        /\ UNION {Range(node[i].series_list) : i \in Workers}
              = Range(series_list)

\* three or more workers, with a series list that does not divide evenly
C7_Witness ==
    /\ ppc = "running"
    /\ Len(node) >= 3
    /\ Len(series_list) % Len(node) # 0

\* C8: the workers' series lists, concatenated in worker order, give back
\* the series list; their lengths differ by at most one; none is empty; and
\* min(ncores, number of series) workers are started.
C8_AssignmentShape ==
    ppc = "running" =>
        /\ Flatten([i \in Workers |-> node[i].series_list]) = series_list
        /\ \A i, j \in Workers :
              Len(node[i].series_list) - Len(node[j].series_list) <= 1
        /\ \A i \in Workers : Len(node[i].series_list) >= 1
        /\ Len(node) = Min(args.ncores, Len(series_list))

\* three or more workers, and the remainder of the division is two or more
C8_Witness ==
    /\ ppc = "running"
    /\ Len(node) >= 3
    /\ Len(series_list) % Len(node) >= 2

\* the trigger counter has reached ntriggers
LimitHit(w) == w.ntriggers > 0 /\ w.trigger_counter >= w.ntriggers

\* the last partition flushed: the last file exported, or without files the
\* series_df copied to the output table
FinalPartition(w) ==
    IF w.lgc_save THEN w.files[Len(w.files)].rows ELSE w.series_df.rows

\* the rows of all files exported by a worker, in the order of the exports
FileRows(w) == Flatten([k \in 1..Len(w.files) |-> w.files[k].rows])

\* the rows flushed before the final partition
FlushedBefore(w) ==
    IF w.lgc_save
    THEN SumSeq([k \in 1..(Len(w.files) - 1) |-> Len(w.files[k].rows)])
    ELSE Len(w.output_df.rows) - Len(w.series_df.rows)

\* C1 as stated: when a worker has stopped on ntriggers = M, the final
\* flushed partition contains exactly M rows.
C1_FinalPartitionHasM ==
    \A i \in Workers :
        LET w == node[i]
        IN (w.stop = "ntriggers" /\ (w.lgc_save \/ w.lgc_output))
           => Len(FinalPartition(w)) = w.ntriggers

\* C1 amended: when a worker has stopped on ntriggers = M, the partitions
\* flushed during the run, the final one included, hold together exactly
\* the first M rows produced, in order and each once; the final partition
\* holds M rows less the rows flushed before it.
C1_HardStopCount ==
    \A i \in Workers :
        LET w == node[i]
            first == SubSeq(w.appended, 1, w.ntriggers)
        IN w.stop = "ntriggers" =>
             /\ Len(w.appended) >= w.ntriggers
             /\ Cardinality(Range(first)) = w.ntriggers
             /\ w.lgc_save => FileRows(w) = first
             /\ w.lgc_output => w.output_df.rows = first
             /\ (w.lgc_save \/ w.lgc_output) =>
                   Len(FinalPartition(w)) = w.ntriggers - FlushedBefore(w)

\* a hard stop that cut rows off the last block, after an earlier dump
C1_Witness ==
    \E i \in Workers :
        /\ node[i].stop = "ntriggers"
        /\ Len(node[i].appended) > node[i].ntriggers
        /\ node[i].lgc_save
        /\ Len(node[i].files) >= 2

\* the number of rows the last block that yielded rows has appended
LastBlockRows(w) ==
    LET last == w.appended[Len(w.appended)]
    IN Cardinality({k \in 1..Len(w.appended) :
                        /\ w.appended[k][1] = last[1]
                        /\ w.appended[k][2] = last[2]})

\* C2: once the trigger counter has reached ntriggers (> 0) the worker only
\* makes the truncating flush and returns: it never raises, the count was
\* reached by the last block that yielded rows, no block read after that
\* block is passed to the trigger acquisition, and no later series is
\* started.
C2_HardStopTerminal ==
    \A i \in Workers :
        LET w == node[i]
            last == w.appended[Len(w.appended)]
        IN /\ w.stop = "ntriggers" => (w.pc = "done" /\ LimitHit(w))
           /\ LimitHit(w) =>
                 /\ w.pc \in {"check", "done"}
                 /\ w.pc = "done" => w.stop = "ntriggers"
                 /\ w.trigger_counter - LastBlockRows(w) < w.ntriggers
                 /\ Series(w) = last[1]
                 /\ \A blk \in w.acquired :
                       blk[1] = last[1] => blk[2] <= last[2]
                 /\ (w.pc = "done" /\ w.lgc_save) =>
                       /\ w.files # <<>>
                       /\ w.files[Len(w.files)].series = Series(w)

\* a hard stop in the middle of a series (the last read gave a block) with
\* a later series of the list not started
C2_Witness ==
    \E i \in Workers :
        /\ node[i].stop = "ntriggers"
        /\ ~node[i].do_stop
        /\ node[i].si < Len(node[i].series_list)

\* the loop is at its head with a series_df that has reached the limit
OverLimit(w) ==
    w.pc = "check" /\ ~w.series_df.none /\ LimitReached(w, w.series_df)

\* w is a worker with OverLimit and v the same worker one loop pass later:
\* series_df was emptied before the rows of the block read were appended
BufferEmptied(w, v) == Range(v.series_df.rows) \cap Range(w.series_df.rows) = {}

\* C3 as stated: in every output mode, the loop pass that follows a block
\* after which series_df has reached the memory limit empties series_df.
C3_FlushEveryMode ==
    [][\A i \in DOMAIN node :
          (OverLimit(node[i]) /\ node'[i] # node[i])
              => BufferEmptied(node[i], node'[i])]_vars

\* what the loop pass after the limit was reached does, by output mode
C3_FlushStep(w, v) ==
    IF w.lgc_save
    THEN LET f == v.files[Len(v.files)]
         IN /\ Len(v.files) = Len(w.files) + 1
            /\ f.series = Series(w)
            /\ f.dump = w.dump_couter
            /\ f.rows = SubSeq(w.series_df.rows, 1, Len(f.rows))
            /\ ~LimitHit(w) => f.rows = w.series_df.rows
            /\ BufferEmptied(w, v)
            /\ (v.pc = "check" /\ v.si = w.si) =>
                  v.series_df.rows = SubSeq(v.appended, Len(w.appended) + 1,
                                            Len(v.appended))
    ELSE IF w.lgc_output
    THEN /\ v.pc = "done"
         /\ v.stop \in {"memory", "ntriggers"}
         /\ v.files = <<>>
         /\ v.series_df.rows = SubSeq(w.series_df.rows, 1, Len(v.series_df.rows))
         /\ v.series_df.rows # <<>>
         /\ v.output_df.rows = w.output_df.rows \o v.series_df.rows
    ELSE /\ v.files = <<>>
         /\ v.output_df.none
         /\ (v.si = w.si /\ ~LimitHit(w)) =>
               w.series_df.rows = SubSeq(v.series_df.rows, 1,
                                         Len(w.series_df.rows))

\* C3 amended: with lgc_save, the loop pass that follows a block after which
\* series_df has reached the memory limit exports exactly one file, holding
\* series_df, and empties series_df before the block read in that pass is
\* processed. Without lgc_save series_df is not emptied: with lgc_output it
\* is copied to the output table and the worker returns, and with neither
\* nothing is flushed.
C3_MemoryFlush ==
    [][\A i \in DOMAIN node :
          (OverLimit(node[i]) /\ node'[i] # node[i])
              => C3_FlushStep(node[i], node'[i])]_vars

\* a dump on the memory limit alone in the middle of a series: the block
\* read in that pass has started the new partition
C3_Witness ==
    \E i \in Workers :
        /\ node[i].lgc_save
        /\ node[i].pc = "check"
        /\ node[i].memory_limit_reached
        /\ ~node[i].do_stop
        /\ ~node[i].ntriggers_limit_reached
        /\ Len(node[i].files) = 1
        /\ ~node[i].series_df.none

\* no read of the run has failed on a raw data issue
NoReadError == \A s \in DOMAIN source : source[s].status # "error"

\* every block read in the series the worker has entered was passed to the
\* trigger acquisition
AllAcquired(w) ==
    \A k \in 1..w.si :
        \A b \in 1..Len(source[w.series_list[k]].blocks) :
            <<w.series_list[k], b>> \in w.acquired

\* C4, checked where no documented stop applies (files are saved, no table
\* is returned, ntriggers is unlimited, no read fails): a worker that has
\* made a dump on the memory limit alone, with a block read in the same
\* pass, ends by returning normally after the last series of its list, with
\* every block read passed to the trigger acquisition.
C4_ContinuesAfterMemoryFlush ==
    \A i \in Workers :
        LET w == node[i]
        IN (/\ w.memflush
            /\ w.lgc_save
            /\ ~w.lgc_output
            /\ w.ntriggers <= 0
            /\ NoReadError
            /\ Terminal(w))
           => /\ w.pc = "done"
              /\ w.si = Len(w.series_list)
              /\ AllAcquired(w)

\* C5: a worker does not raise in a series that has ended (end of file)
\* without any block yielding a trigger row.
C5_EmptyInput ==
    \A i \in Workers :
        LET w == node[i]
        IN (w.pc = "raised" /\ source[Series(w)].status = "eof")
           => \E k \in 1..Len(w.appended) : w.appended[k][1] = Series(w)

\* what read_next_event gives when the raw data are the blocks read so far
RefRead(w) ==
    LET src == source[Series(w)]
    IN IF w.nread < Len(src.blocks)
       THEN <<TRUE, src.blocks[w.nread + 1]>>
       ELSE <<FALSE, 0>>

\* _process run to its end on the raw data read so far
RECURSIVE RunWorker(_)
RunWorker(w) ==
    IF w.pc # "check" THEN w
    ELSE RunWorker(Iteration(w, RefRead(w)[1], RefRead(w)[2]))

\* the single-worker run of the same call: ncores = 1, the other arguments
\* as given
SingleRun == RunWorker(Dispatch(series_list, [args EXCEPT !.ncores = 1])[1])

\* the rows a run has output: the rows of the files exported and, when the
\* call returned a table, its rows
OutputRows(ws) ==
    UNION {Range(FileRows(ws[i])) : i \in DOMAIN ws}
    \cup (IF \A i \in DOMAIN ws : ws[i].pc = "done"
          THEN Range(Collect(ws).rows) ELSE {})

\* C9, checked where no documented stop applies (no table is returned,
\* ntriggers is unlimited, no read fails): when a call with several workers
\* has ended, the rows the workers have output are the rows the
\* single-worker run of the same call outputs on the same raw data.
C9_NoEventCountDrift ==
    (/\ ppc \in {"done", "raised"}
     /\ Len(node) > 1
     /\ ~args.lgc_output
     /\ NoReadError)
        => OutputRows(node) = OutputRows(<< SingleRun >>)

\* C10, for a worker that saves files: once a read of a series that has
\* yielded rows has failed on a raw data issue, the worker reading it is in
\* its failed state, still in that series, and has neither exported a file
\* for the series nor copied rows of it to the output table.
C10_ReadErrorFails ==
    \A i \in Workers :
        LET w == node[i]
        IN \A k \in 1..w.si :
              (/\ source[w.series_list[k]].status = "error"
               /\ w.lgc_save
               /\ \E r \in Range(w.appended) : r[1] = w.series_list[k]) =>
                  /\ w.pc = "raised"
                  /\ w.si = k
                  /\ \A r \in Range(FileRows(w)) \cup Range(w.output_df.rows) :
                        r[1] # w.series_list[k]

\* C11: when an enabled trigger of the configuration has no threshold_sigma,
\* a call of process() ends with the configuration error, no block was read
\* from the raw data, and no output directory and no worker was created.
C11_MissingThresholdFailsFast ==
    (ThresholdMissing /\ ppc # "init") =>
        /\ ppc = "raised"
        /\ perr = "config"
        /\ BlocksRead = 0
        /\ ~dir_created
        /\ node = <<>>

\* the parameters of the trigger section that give the coincidence window
WindowsGiven(y) == {k \in WindowKeys : \E i \in DOMAIN y : y[i].key = k}

\* the trigger section without its coincidence window parameters
WithoutWindows(y) == SelectSeq(y, LAMBDA e : e.key \notin WindowKeys)

\* C12: a trigger section with both coincident_window_msec and
\* coincident_window_samples is rejected with an error when the
\* configuration is loaded, by TriggerProcessing as well as by
\* utils.read_config; one with exactly one of them is accepted whenever the
\* same section without it is.
C12_WindowUnitsExclusive ==
    /\ config.status # "unread" =>
          /\ WindowsGiven(yaml) = WindowKeys => config.status = "error"
          /\ (/\ Cardinality(WindowsGiven(yaml)) = 1
              /\ ReadConfig(WithoutWindows(yaml)).status = "ok")
                 => config.status = "ok"
    /\ uconfig.status # "unread" =>
          /\ WindowsGiven(yaml) = WindowKeys => uconfig.status = "error"
          /\ (/\ Cardinality(WindowsGiven(yaml)) = 1
              /\ UtilsReadConfig(WithoutWindows(yaml)).status = "ok")
                 => uconfig.status = "ok"

\* the channels an entry names: the tokens of its key but the separators
NamedChannels(e) ==
    {e.key[i] : i \in DOMAIN e.key} \ {Separators[s] : s \in DOMAIN Separators}

\* the enabled trigger entries of a trigger section
EnabledEntries(y) == {i \in DOMAIN y : y[i].val.dict /\ y[i].val.run}

\* an enabled trigger entry names a channel that is not in the raw data
NamesUnknownChannel(y) ==
    \E i \in EnabledEntries(y) : ~(NamedChannels(y[i]) \subseteq AvailableChannels)

\* a channel is named by more than one enabled trigger entry
NamesChannelTwice(y) ==
    \E i, j \in EnabledEntries(y) :
        i # j /\ NamedChannels(y[i]) \cap NamedChannels(y[j]) # {}

OfSeries(rows, s) == SelectSeq(rows, LAMBDA r : r[1] = s)

\* no row occurs twice in a sequence of rows
NoRowTwice(rows) == \A i, j \in DOMAIN rows : i # j => rows[i] # rows[j]

\* C15: a row of a partition is one Event as the event builder returned it.
\* Every row of every file exported and of the output table is a row the
\* event builder returned, no row is in two files or twice in a file or in
\* the table, and a partition holds rows of one series only; this includes
\* the files cut at the ntriggers boundary and the files dumped on the
\* memory limit.
C15_PartitionsHoldWholeEvents ==
    \A i \in Workers :
        LET w == node[i]
        IN /\ Range(FileRows(w)) \subseteq Range(w.appended)
           /\ Range(w.output_df.rows) \subseteq Range(w.appended)
           /\ NoRowTwice(FileRows(w))
           /\ NoRowTwice(w.output_df.rows)
           /\ \A k \in DOMAIN w.files :
                 \A r \in Range(w.files[k].rows) : r[1] = w.files[k].series

\* a worker that has dumped a file on the memory limit and then a file cut
\* at the ntriggers boundary, in one series
C15_Witness ==
    \E i \in Workers :
        /\ node[i].stop = "ntriggers"
        /\ node[i].memflush
        /\ Len(node[i].files) = 2
        /\ node[i].files[1].series = node[i].files[2].series
        /\ Len(FileRows(node[i])) < Len(node[i].appended)

\* the Events of one series are in trigger_time order when their blocks
\* are in the order read and, in a block, they are in the order the event
\* builder returned them
InTimeOrder(rows) ==
    \A i, j \in DOMAIN rows :
        i < j => \/ rows[i][2] < rows[j][2]
                 \/ (rows[i][2] = rows[j][2] /\ rows[i][3] < rows[j][3])

CandidateSamples == {trig.cands[k].sample_index : k \in DOMAIN trig.cands}

\* the threshold crossings of the block acquired last
BlockCrossings ==
    Crossings(SignedTrace(trig.trace, trig.cfg.positive_pulses),
              trig.cfg.threshold)

\* C14: the triggers of the first block of a series are those the block
\* gives on a trigger object without a trigger before it: no trigger of
\* the series before suppresses a trigger at the start of a series
C14_StateResetAtNewSeries ==
    (trig.pc = "acquired" /\ trig.block = 1) =>
        trig.cands = Detect([trig.before EXCEPT !.last_trigger_sample = -1],
                            trig.trace, trig.cfg)

\* the block acquired last has two threshold crossings, closer to each
\* other than a pileup window that is not 0
TwoCloseCrossings ==
    /\ trig.pc = "acquired"
    /\ trig.cfg.pileup_window_samples > 0
    /\ Len(BlockCrossings) = 2
    /\ BlockCrossings[2] - BlockCrossings[1] < trig.cfg.pileup_window_samples

\* of the two crossings of the block the one of larger amplitude (the
\* first when the amplitudes are equal)
LargerCrossing ==
    LET v == SignedTrace(trig.trace, trig.cfg.positive_pulses)
        x == BlockCrossings
    IN IF v[x[2]] > v[x[1]] THEN x[2] ELSE x[1]

\* no two candidates of a block are closer than the pileup window
NoTwoCandidatesClose ==
    \A i, j \in DOMAIN trig.cands :
        i < j => trig.cands[j].sample_index - trig.cands[i].sample_index
                     >= trig.cfg.pileup_window_samples

\* C17 as stated: a block with two crossings closer than the pileup window
\* gives exactly one candidate, at the crossing of larger amplitude, and no
\* two candidates of a block are closer than the pileup window
C17_PileupSuppression ==
    /\ TwoCloseCrossings =>
           /\ Len(trig.cands) = 1
           /\ trig.cands[1].sample_index = LargerCrossing
    /\ trig.pc = "acquired" => NoTwoCandidatesClose

\* C17 amended: a block with two crossings closer than the pileup window
\* gives one candidate, at the crossing of larger amplitude, unless that
\* crossing is closer than the pileup window to last_trigger_sample: then
\* the block gives no candidate; no two candidates of a block are closer
\* than the pileup window
C17_PileupSuppressionAmended ==
    /\ TwoCloseCrossings =>
           IF /\ trig.before.last_trigger_sample # -1
              /\ (trig.before.nsamples + LargerCrossing)
                     - trig.before.last_trigger_sample
                     < trig.cfg.pileup_window_samples
           THEN trig.cands = <<>>
           ELSE /\ Len(trig.cands) = 1
                /\ trig.cands[1].sample_index = LargerCrossing
                /\ trig.cands[1].amplitude = trig.trace[LargerCrossing]
    /\ trig.pc = "acquired" => NoTwoCandidatesClose

\* a block whose second crossing is the larger of two close crossings and
\* is the candidate of the block
C17_Witness ==
    /\ TwoCloseCrossings
    /\ LargerCrossing = BlockCrossings[2]
    /\ CandidateSamples = {BlockCrossings[2]}

\* the block acquired last is not the first of its series and the block
\* before it has given a candidate
AfterBlockWithCandidate ==
    /\ trig.pc = "acquired"
    /\ trig.block >= 2
    /\ trig.before.last_trigger_sample > trig.before.nsamples - BlockLen

\* the crossings of the block acquired last that are closer than the
\* pileup window to the last candidate of the block before
CrossingsNearLast ==
    {BlockCrossings[k] : k \in DOMAIN BlockCrossings} \cap
    {c \in 1..BlockLen :
        (trig.before.nsamples + c) - trig.before.last_trigger_sample
            < trig.cfg.pileup_window_samples}

EventTriggers == Flatten([k \in DOMAIN evtb.events |-> evtb.events[k].triggers])

\* the times of the triggers of the Events built, Event by Event
EventTimes ==
    [k \in DOMAIN evtb.events |->
        [i \in DOMAIN evtb.events[k].triggers |->
            evtb.events[k].triggers[i].time]]

\* the rule of the merge sweep: the Events are groups of consecutive
\* triggers of the sequence ordered by absolute_time, every trigger of a
\* group is within the window of the first of the group, and the first of
\* a group is not within the window of the first of the group before
AnchoredGroups ==
    evtb.pc = "built" =>
        /\ EventTriggers = SortTriggers(evtb.triggers)
        /\ \A k \in DOMAIN evtb.events :
               \A i \in DOMAIN evtb.events[k].triggers :
                   evtb.events[k].triggers[i].time
                       - evtb.events[k].triggers[1].time <= evtb.window
        /\ \A k \in DOMAIN evtb.events :
               k > 1 => evtb.events[k].triggers[1].time
                            - evtb.events[k - 1].triggers[1].time
                            > evtb.window

\* the block has three triggers, at the times given, and the window is 6 ms
ExampleBuilt(t1, t2, t3) ==
    /\ evtb.pc = "built"
    /\ evtb.window = 6
    /\ Cardinality(evtb.triggers) = 3
    /\ {c.time : c \in evtb.triggers} = {t1, t2, t3}

\* C19 as stated: a trigger joins the open group iff it is within the
\* window of the first trigger of the group; with a window of 6 ms,
\* triggers at 0, 5, 7 ms form one Event and triggers at 0, 5, 9 ms form
\* the Events {0, 5} and {9}
C19_CoincidenceAnchoring ==
    /\ AnchoredGroups
    /\ ExampleBuilt(0, 5, 7) => Len(evtb.events) = 1
    /\ ExampleBuilt(0, 5, 9) => EventTimes = << <<0, 5>>, << 9 >> >>

\* C19 amended: a trigger joins the open group iff it is within the window
\* of the first trigger of the group; with a window of 6 ms, triggers at
\* 0, 5, 7 ms form the Events {0, 5} and {7}, and triggers at 0, 5, 9 ms
\* form the Events {0, 5} and {9}
C19_CoincidenceAnchoringAmended ==
    /\ AnchoredGroups
    /\ ExampleBuilt(0, 5, 7) => EventTimes = << <<0, 5>>, << 7 >> >>
    /\ ExampleBuilt(0, 5, 9) => EventTimes = << <<0, 5>>, << 9 >> >>

\* triggers at 0, 5, 7 ms with a window of 6 ms: the trigger at 7 ms is
\* within the window of the trigger at 5 ms and opens a group all the same
C19_Witness ==
    /\ ExampleBuilt(0, 5, 7)
    /\ Len(evtb.events) = 2

\* C20: every trigger of the block is in exactly one Event, every Event
\* has a trigger, the reference of an Event is the earliest of its
\* triggers and all its triggers are within the window of the reference
C20_EventMembership ==
    evtb.pc = "built" =>
        /\ {EventTriggers[i] : i \in DOMAIN EventTriggers} = evtb.triggers
        /\ Len(EventTriggers) = Cardinality(evtb.triggers)
        /\ \A k \in DOMAIN evtb.events :
               LET e == evtb.events[k]
               IN /\ Len(e.triggers) >= 1
                  /\ \A i \in DOMAIN e.triggers :
                         /\ e.trigger_time <= e.triggers[i].time
                         /\ e.triggers[i].time - e.trigger_time
                                <= evtb.window
                  /\ \E i \in DOMAIN e.triggers :
                         e.triggers[i].time = e.trigger_time

\* a block whose triggers make two Events, one of them of triggers of two
\* channels at different times
C20_Witness ==
    /\ evtb.pc = "built"
    /\ Len(evtb.events) = 2
    /\ \E k \in DOMAIN evtb.events :
          \E i, j \in DOMAIN evtb.events[k].triggers :
              /\ evtb.events[k].triggers[i].channel
                     # evtb.events[k].triggers[j].channel
              /\ evtb.events[k].triggers[i].time
                     # evtb.events[k].triggers[j].time

\* C21: a worker that returns the table (lgc_output) and finds the memory
\* limit reached, by series_df or by output_df, in whatever pass of the
\* loop (the read of the pass has given a block), returns without raising, and the table it returns holds every row
\* produced before the stop
C21_MemoryStopReturnsTable ==
    \A i \in Workers :
        LET w == node[i]
        IN (/\ w.lgc_output
            /\ w.memory_limit_reached
            /\ ~w.ntriggers_limit_reached
            /\ ~w.do_stop
            /\ NoReadError) =>
               /\ w.pc = "done"
               /\ w.stop = "memory"
               /\ w.output_df.rows = w.appended

\* the series the workers have processed to their end
CompletedSeries ==
    {s \in Range(series_list) :
        \E i \in Workers : \E k \in DOMAIN node[i].series_list :
            /\ node[i].series_list[k] = s
            /\ \/ k < node[i].si
               \/ k = node[i].si /\ node[i].pc = "done"
                                 /\ node[i].stop = "end"}

\* C22: in a run of several workers, process() raises for a failed worker
\* only when every worker has returned or raised, a worker that has raised
\* does not keep the others from going on, and what is raised tells which
\* series were completed and which were abandoned
C22_FailureAtJoin ==
    Len(node) > 1 =>
        /\ (ppc = "raised" /\ perr = "worker") =>
               /\ \A i \in Workers : Terminal(node[i])
               /\ WorkerFailure(node).completed = CompletedSeries
               /\ WorkerFailure(node).abandoned
                      = Range(series_list) \ CompletedSeries
        /\ \A i \in Workers :
               node[i].pc = "check" => (ppc = "running" /\ ENABLED EventLoop(i))

\* the rows a worker holds or has written: in series_df, in output_df and
\* in its files
HeldRows(w) ==
    Range(w.series_df.rows) \cup Range(w.output_df.rows)
        \cup Range(FileRows(w))

\* C23: every row of a partition, of a file, of the table of a worker and
\* of the table returned carries the processing_id passed to process(),
\* none when none was passed, and every row appended is still as it was
\* appended wherever it is held
C23_ProcessingIdPropagated ==
    ppc # "init" =>
        /\ \A i \in Workers :
               /\ \A r \in HeldRows(node[i]) \cup Range(node[i].appended) :
                      r[4] = args.processing_id
               /\ HeldRows(node[i]) \subseteq Range(node[i].appended)
        /\ \A r \in Range(result.rows) : r[4] = args.processing_id

\* a run of two workers with a processing_id: both have written a file,
\* and the table returned holds rows of both
C23_Witness ==
    /\ ppc = "done"
    /\ args.processing_id = "run1"
    /\ Len(node) = 2
    /\ \A i \in Workers : node[i].files # <<>>
    /\ \E r1, r2 \in Range(result.rows) : r1[1] # r2[1]

\* the rows appended that the truncation on ntriggers has not removed
RowsKept(w) ==
    IF w.stop = "ntriggers" THEN SubSeq(w.appended, 1, w.ntriggers)
    ELSE w.appended

\* C24: when a worker that saves files has returned (at the end of its
\* series, on ntriggers or on the memory limit), series_df is empty and
\* the files hold every row appended that the truncation has not removed
C24_FinalFlushAtDone ==
    \A i \in Workers :
        LET w == node[i]
        IN (w.lgc_save /\ w.pc = "done") =>
              /\ w.series_df.none
              /\ w.stop \in {"end", "ntriggers", "memory"}
              /\ FileRows(w) = RowsKept(w)

\* a worker that has returned at the end of its two series, with a file
\* for each
C24_Witness ==
    \E i \in Workers :
        /\ node[i].lgc_save
        /\ node[i].pc = "done"
        /\ node[i].stop = "end"
        /\ \E f, g \in Range(node[i].files) :
              f.series # g.series /\ f.rows # <<>> /\ g.rows # <<>>

\* C25: whatever the arguments, every worker that was started ends: its
\* loop leaves the reading and the flushing and the worker has returned
\* or raised
C25_Termination ==
    (ppc = "running") ~> (\A i \in Workers : Terminal(node[i]))

\* a worker that saves nothing and returns nothing has ended after a pass
\* in which the memory limit was still reached
C25_Witness ==
    \E i \in Workers :
        /\ node[i].pc = "done"
        /\ node[i].stop = "end"
        /\ ~node[i].lgc_save
        /\ ~node[i].lgc_output
        /\ node[i].memory_limit_reached

\* C26: the workers started are W = min(ncores, number of series); each
\* applies the limit memory_limit / W, so that the limits of the workers
\* sum to no more than memory_limit, and the worker of a run on one core
\* applies memory_limit itself
C26_PerWorkerMemoryLimit ==
    ppc = "running" =>
        /\ Len(node) = Min(args.ncores, Len(series_list))
        /\ \A i \in Workers :
               /\ node[i].memory_limit = args.memory_limit
               /\ node[i].memory_div = Len(node)
               /\ \A n \in 0..MaxRows :
                      LimitReached(node[i], Df([k \in 1..n |-> k]))
                          <=> MemoryUsage(Df([k \in 1..n |-> k])) * Len(node)
                                  >= args.memory_limit

\* a call for more cores than series, on several series: the workers
\* started are fewer than the cores asked for
C26_Witness ==
    /\ ppc = "running"
    /\ args.ncores > Len(series_list)
    /\ Len(node) >= 2
    /\ \A i \in Workers : node[i].memory_div = Len(series_list)

\* every series of the list of the worker has been read to its end
StreamExhausted(w) ==
    \A k \in DOMAIN w.series_list : source[w.series_list[k]].status # "open"

\* the rows the blocks read so far have yielded
StreamRows == SumSeq([s \in DOMAIN source |-> SumSeq(source[s].blocks)])

\* C27: when a run on one core with ntriggers = M > 0 that saves files (and
\* returns no table) has ended, with a threshold for every trigger and no
\* failed read, its files hold M rows in all, unless the raw data were read
\* to the end of the last series and have yielded less than M rows
C27_TotalUnderCountLimit ==
    (/\ ppc \in {"done", "raised"}
     /\ Len(node) = 1
     /\ args.ntriggers > 0
     /\ args.lgc_save
     /\ ~args.lgc_output
     /\ perr # "config"
     /\ ~ThresholdMissing
     /\ NoReadError) =>
        \/ Len(FileRows(node[1])) = args.ntriggers
        \/ StreamExhausted(node[1]) /\ StreamRows < args.ntriggers

\* nkeep = len(series_df) - (trigger_counter - ntriggers), as the stop
\* branch of the next pass computes it
NKeep(w) == Len(w.series_df.rows) - (w.trigger_counter - w.ntriggers)

\* C28: whenever the loop comes to its head with the trigger count reached
\* (the test on ntriggers of the pass will be true), series_df holds rows
\* and 0 < nkeep <= len(series_df)
C28_TruncationWellDefined ==
    \A i \in Workers :
        LET w == node[i]
        IN (w.pc = "check" /\ LimitHit(w)) =>
              /\ ~w.series_df.none
              /\ w.series_df.rows # <<>>
              /\ 0 < NKeep(w)
              /\ NKeep(w) <= Len(w.series_df.rows)

\* the trigger count is exceeded after a dump: series_df holds fewer rows
\* than were counted and some of them are in excess
C28_Witness ==
    \E i \in Workers :
        /\ node[i].pc = "check"
        /\ node[i].trigger_counter > node[i].ntriggers
        /\ node[i].ntriggers > 0
        /\ node[i].files # <<>>
        /\ NKeep(node[i]) < Len(node[i].series_df.rows)

\* the name of a file exported: threshtrig_<series>_F<dump counter>.hdf5 in
\* the output group of the run
FileName(f) == <<f.series, f.dump>>

\* the dump counters of the files a worker has exported for a series, in
\* the order of the exports
DumpsOf(w, s) ==
    LET fs == SelectSeq(w.files, LAMBDA f : f.series = s)
    IN [k \in DOMAIN fs |-> fs[k].dump]

\* C29: the files a worker exports for a series are numbered 1, 2, ... in
\* the order of the exports, and no two exports of the run, by one worker
\* or by two, have the same file name
C29_NoFileOverwritten ==
    /\ \A i \in Workers : \A s \in Range(node[i].series_list) :
           DumpsOf(node[i], s) = [k \in DOMAIN DumpsOf(node[i], s) |-> k]
    /\ \A i, j \in Workers :
           \A k \in DOMAIN node[i].files : \A l \in DOMAIN node[j].files :
               (i # j \/ k # l) =>
                   FileName(node[i].files[k]) # FileName(node[j].files[l])

\* a worker has exported two files for one series
C29_Witness ==
    \E i \in Workers : \E s \in Range(node[i].series_list) :
        DumpsOf(node[i], s) = <<1, 2>>

\* the rows the blocks read in the series the worker has entered have
\* yielded, in the order the blocks were read
RowsOfBlocksRead(w) ==
    Flatten([k \in 1..w.si |->
        Flatten([b \in DOMAIN source[w.series_list[k]].blocks |->
            [n \in 1..source[w.series_list[k]].blocks[b] |->
                <<w.series_list[k], b, n, w.processing_id>>]])])

\* C30: with ntriggers unlimited and files saved (no table returned),
\* every block read was passed to the trigger acquisition, the rows of
\* every block read were appended once, and each of them is in a file or
\* in series_df: in the files alone when the worker has ended
C30_NoBlockLostAcrossFlush ==
    \A i \in Workers :
        LET w == node[i]
        IN (/\ w.ntriggers <= 0
            /\ w.lgc_save
            /\ ~w.lgc_output
            /\ ~ThresholdMissing) =>
              /\ AllAcquired(w)
              /\ w.appended = RowsOfBlocksRead(w)
              /\ FileRows(w) \o w.series_df.rows = w.appended
              /\ Terminal(w) => Range(FileRows(w)) = Range(w.appended)

\* a worker has ended after a dump on the memory limit in a pass that read
\* a block: the rows of that block are in the second file of the series
C30_Witness ==
    \E i \in Workers :
        /\ node[i].memflush
        /\ node[i].pc = "done"
        /\ node[i].ntriggers <= 0
        /\ ~node[i].lgc_output
        /\ Len(node[i].files) = 2
        /\ node[i].files[2].rows # <<>>
        /\ node[i].files[2].series = node[i].files[1].series
====
